---- MODULE Spec2Model ----
(***************************************************************************)
(* SimpleVec<T>: the hand-written growable buffer of                       *)
(* src/rust/高级/08 Rust不安全编程.rs (fn memory_utilities, lines 199-312). *)
(* The buffer's three fields, the heap it allocates from, and the position *)
(* of the one thread that uses it are the state; push, grow, pop, get, len *)
(* and Drop are the actions, split at the places where the source changes  *)
(* len or touches memory so that the states in between can be observed.    *)
(***************************************************************************)
EXTENDS Integers, Sequences, FiniteSets, TLC

(* ------------------------------ bounds -------------------------------- *)

\* User calls of push and pop made on one buffer before it is dropped.
MaxOps == 7

\* Addresses the allocator can hand out.
NumAddrs == 2

\* Width of usize in bits (scaled down from 64 so that Layout::array's
\* overflow check is within reach).
UsizeBits == 6

\* Values a caller pushes.
Values == {"a", "b"}

\* size_of::<T>() of the element types the buffer is instantiated with
\* (alignment equal to size, as for u8 and i32). The source instantiates
\* SimpleVec, a type local to memory_utilities, with i32 only.
ElemSizes == {1, 4}

\* Width of usize in the specification of narrow platforms, where a
\* zero-sized T reaches the overflow of `self.capacity * 2`.
NarrowBits == 3

\* size_of::<T>() in the specification of narrow platforms: a zero-sized
\* type, u8 and u16.
NarrowSizes == {0, 1, 2}

\* Addresses the allocator can hand out when two buffers share it: one
\* block for each and one more, so that a block can still move.
PairAddrs == 3

\* User calls of push and pop made on the two buffers together.
PairOps == 3

\* Longest slice handed to split_at_mut.
MaxLen == 4

\* The i32 values in a slice handed to split_at_mut.
SplitValues == {1, 2, 3}

(* ------------------------------ values -------------------------------- *)

Addrs == 1 .. NumAddrs

\* std::ptr::NonNull::dangling(): an address that is no heap block.
Dangling == 0

\* The null pointer alloc/realloc return on failure.
Null == -1

\* Option::None, as returned by pop and get.
Absent == [id |-> 0, val |-> "none"]

\* The content of memory that was never written.
Junk == [id |-> -1, val |-> "junk"]

\* An element: the value pushed, tagged with the ordinal of the push call
\* that brought it in (its identity as an object).
Elems == [id : 1 .. MaxOps, val : Values]

ElemIds == -1 .. MaxOps

\* No call has returned since the current one began.
NoRet == [op |-> "none", val |-> Absent, n |-> 0, touched |-> {}]

FreeBlock == [alloc |-> FALSE, size |-> 0, align |-> 0, data |-> << >>]

\* There is no second buffer.
NoBuffer == [pc |-> "none"]

\* split_at_mut has not been called.
NoSplit == [pc |-> "none"]

VARIABLES
    ptr,        \* SimpleVec::ptr : an address, or Dangling
    len,        \* SimpleVec::len
    capacity,   \* SimpleVec::capacity
    elemSize,   \* size_of::<T>()
    usizeBits,  \* the width of usize on the platform
    heap,       \* the allocator's blocks: Addrs -> [alloc, size, align, data]
    pc,         \* where the thread is
    inDrop,     \* TRUE once Drop::drop has been entered
    pending,    \* push's argument `element`, until it is written or dropped
    lastRet,    \* what the last completed call returned
    live,       \* slot indices that hold a constructed, not yet destructed value
    model,      \* reference stack: the elements pushed and not yet popped
    counts,     \* per element id: written, handed, torn, argDropped
    calls,      \* pushCalls, pushDone, popCalls, popSome, popEmpty
    hist,       \* the run so far, while it is pushes followed by pops
    rec,        \* what an allocation-tracking allocator has recorded
    other,      \* the fields and ghosts of a second buffer, or NoBuffer
    split       \* a call of split_at_mut: its arguments, position and result

vars == << ptr, len, capacity, elemSize, usizeBits, heap, pc, inDrop,
           pending, lastRet, live, model, counts, calls, hist, rec, other,
           split >>

bufVars == << ptr, len, capacity >>

\* What the instantiation and the target fix.
platform == << elemSize, usizeBits >>

\* What no method of the buffer in use has access to.
aux == << other, split >>

UsizeMax == 2 ^ usizeBits - 1

IsizeMax == 2 ^ (usizeBits - 1) - 1

(* ------------------------- Layout and allocator ----------------------- *)

\* align_of::<T>(): 1 for a zero-sized type.
ElemAlign == IF elemSize = 0 THEN 1 ELSE elemSize

LayoutErr == [size |-> -1, align |-> 0]

\* Layout::array::<T>(n): Err when size_of::<T>() * n, rounded up to the
\* alignment, exceeds isize::MAX.
LayoutArray(n) ==
    IF elemSize # 0 /\ n > (IsizeMax - (ElemAlign - 1)) \div elemSize
    THEN LayoutErr
    ELSE [size |-> elemSize * n, align |-> ElemAlign]

SlotsOf(size) == IF elemSize = 0 THEN 0 ELSE size \div elemSize

JunkData(n) == [i \in 1 .. n |-> Junk]

FreeAddrs(h) == {a \in DOMAIN h : ~h[a].alloc}

Owned(h, p) == p \in DOMAIN h /\ h[p].alloc

\* std::alloc::alloc(layout): null, or a fresh block of layout.size bytes
\* whose content is uninitialized.
Alloc(h, layout) ==
    LET bad == IF layout.size = 0 THEN {"zero_size_alloc"} ELSE {}
    IN  {[kind |-> "acquire", ptr |-> Null, heap |-> h, bad |-> bad]}
        \cup
        {[kind |-> "acquire", ptr |-> a,
          heap |-> [h EXCEPT ![a] =
                        [alloc |-> TRUE, size |-> layout.size,
                         align |-> layout.align,
                         data |-> JunkData(SlotsOf(layout.size))]],
          bad |-> bad]
         : a \in FreeAddrs(h)}

\* The first min(old, new) bytes of a block moved by realloc.
Moved(old, n) ==
    [i \in 1 .. n |-> IF i <= Len(old) THEN old[i] ELSE Junk]

\* std::alloc::realloc(ptr, layout, new_size): null with the old block left
\* as it was, or a block of new_size bytes at the same or another address,
\* holding the old content, the old block being released.
Realloc(h, p, layout, newSize) ==
    LET bad == (IF ~Owned(h, p) THEN {"realloc_unowned"}
                ELSE IF h[p].size # layout.size \/ h[p].align # layout.align
                     THEN {"realloc_bad_layout"} ELSE {})
               \cup (IF newSize = 0 THEN {"zero_size_alloc"} ELSE {})
        old == IF Owned(h, p) THEN h[p].data ELSE << >>
        cleared == IF Owned(h, p) THEN [h EXCEPT ![p] = FreeBlock] ELSE h
    IN  {[kind |-> "grow", ptr |-> Null, heap |-> h, bad |-> bad]}
        \cup
        {[kind |-> "grow", ptr |-> a,
          heap |-> [cleared EXCEPT ![a] =
                        [alloc |-> TRUE, size |-> newSize,
                         align |-> layout.align,
                         data |-> Moved(old, SlotsOf(newSize))]],
          bad |-> bad]
         : a \in FreeAddrs(cleared)}

\* std::alloc::dealloc(ptr, layout).
Dealloc(h, p, layout) ==
    [heap |-> IF Owned(h, p) THEN [h EXCEPT ![p] = FreeBlock] ELSE h,
     bad |-> IF ~Owned(h, p) THEN {"release_unowned"}
             ELSE IF h[p].size # layout.size \/ h[p].align # layout.align
                  THEN {"release_bad_layout"} ELSE {}]

(* --------------------------- raw pointer access ----------------------- *)

\* The one value of a zero-sized type: it has no bits, so that memory keeps
\* nothing of it, not even which push brought it in.
Unit == [id |-> 0, val |-> "unit"]

\* Whether slot `slot` of the block at p may be accessed: for a zero-sized
\* T no byte is touched and every non-null pointer will do.
InBlock(h, p, slot) ==
    IF elemSize = 0
    THEN p # Null
    ELSE Owned(h, p) /\ slot >= 0 /\ slot < Len(h[p].data)

\* std::ptr::write(p.add(slot), e)
PtrWrite(h, p, slot, e) ==
    IF elemSize # 0 /\ InBlock(h, p, slot)
    THEN [h EXCEPT ![p].data[slot + 1] = e]
    ELSE h

\* std::ptr::read(p.add(slot)) and &*p.add(slot)
PtrRead(h, p, slot) ==
    IF elemSize = 0 THEN Unit
    ELSE IF InBlock(h, p, slot) THEN h[p].data[slot + 1] ELSE Junk

(* ------------------------------ new ----------------------------------- *)

NoCounts == [i \in ElemIds |-> 0]

\* SimpleVec::new(), and the ghosts of a buffer nothing was done with.
NewBuffer ==
    /\ ptr = Dangling
    /\ len = 0
    /\ capacity = 0
    /\ pc = "idle"
    /\ inDrop = FALSE
    /\ pending = Absent
    /\ lastRet = NoRet
    /\ live = {}
    /\ model = << >>
    /\ counts = [written |-> NoCounts, handed |-> NoCounts,
                 torn |-> NoCounts, argDropped |-> NoCounts]
    /\ calls = [pushCalls |-> 0, pushDone |-> 0, popCalls |-> 0,
                popSome |-> 0, popEmpty |-> 0]
    /\ hist = [phase |-> "push", pushed |-> << >>, popped |-> << >>]
    /\ rec = [nAcquire |-> 0, nGrow |-> 0, nOk |-> 0, nFail |-> 0,
              nRelease |-> 0, okBlock |-> Dangling, okSize |-> 0,
              okAlign |-> 0, relBlock |-> Dangling, relSize |-> 0,
              relAlign |-> 0, reqSize |-> 0, reqAlign |-> 0,
              moved |-> FALSE, bad |-> {}]

Init ==
    /\ NewBuffer
    /\ elemSize \in ElemSizes
    /\ usizeBits = UsizeBits
    /\ heap = [a \in Addrs |-> FreeBlock]
    /\ other = NoBuffer
    /\ split = NoSplit

(* ------------------------------ ghosts -------------------------------- *)

Bump(field, id) == [counts EXCEPT ![field][id] = @ + 1]

HistOther == [phase |-> "other", pushed |-> << >>, popped |-> << >>]

\* A push completed with value v.
HistPush(v) ==
    IF hist.phase = "push"
    THEN [hist EXCEPT !.pushed = Append(@, v)]
    ELSE HistOther

\* A pop called by the user returned r ("none" for None).
HistPop(r) ==
    IF hist.phase \in {"push", "pop"} /\ Len(hist.popped) <= Len(hist.pushed)
    THEN [hist EXCEPT !.phase = "pop", !.popped = Append(@, r)]
    ELSE HistOther

\* The allocator's record of one alloc or realloc call and its outcome o.
RecCall(o, layout) ==
    [rec EXCEPT
        !.nAcquire = IF o.kind = "acquire" THEN @ + 1 ELSE @,
        !.nGrow    = IF o.kind = "grow" THEN @ + 1 ELSE @,
        !.moved    = IF o.ptr = Null THEN @
                     ELSE o.kind = "grow" /\ o.ptr # ptr,
        !.nOk      = IF o.ptr # Null THEN @ + 1 ELSE @,
        !.nFail    = IF o.ptr = Null THEN @ + 1 ELSE @,
        !.okBlock  = IF o.ptr # Null THEN o.ptr ELSE @,
        !.okSize   = IF o.ptr # Null THEN layout.size ELSE @,
        !.okAlign  = IF o.ptr # Null THEN layout.align ELSE @,
        !.reqSize  = layout.size,
        !.reqAlign = layout.align,
        !.bad      = @ \cup o.bad]

RecRelease(p, layout, o) ==
    [rec EXCEPT
        !.nRelease = @ + 1,
        !.relBlock = p,
        !.relSize  = layout.size,
        !.relAlign = layout.align,
        !.bad      = @ \cup o.bad]

\* An access to a slot; `moved` speaks of the growth of the push in
\* progress only, and the push ends with its write.
RecAccess(slot) ==
    [rec EXCEPT !.moved = FALSE,
                !.bad = @ \cup (IF InBlock(heap, ptr, slot) THEN {}
                                ELSE {"wild_access"})]

Front(s) == SubSeq(s, 1, Len(s) - 1)

(* ----------------------------- the caller ------------------------------ *)

OpsOf(c) == c.pushCalls + c.popCalls

\* The calls of push and pop the caller has made, on both buffers.
OpsDone ==
    OpsOf(calls) + (IF other = NoBuffer THEN 0 ELSE OpsOf(other.calls))

OpsBound == IF other = NoBuffer THEN MaxOps ELSE PairOps

\* A panic is unwinding through the caller: it has dropped the second
\* buffer on its way, and the caller makes no further call.
Unwinding ==
    /\ other # NoBuffer
    /\ \E i \in ElemIds : other.counts.argDropped[i] > 0

(* ------------------------------ push ---------------------------------- *)

\* Mutant: the comparison of push turned around, so that it never grows.
NeedsGrowNever == len > capacity

\* Mutant: push grows one slot before the buffer is full.
NeedsGrowEarly == len + 1 >= capacity

\* `if self.len == self.capacity`
NeedsGrow == len = capacity

\* push, up to the call of grow: takes its argument.
PushCall ==
    /\ pc = "idle"
    /\ OpsDone < OpsBound
    /\ ~Unwinding
    /\ \E v \in Values :
          pending' = IF elemSize = 0 THEN Unit
                     ELSE [id |-> calls.pushCalls + 1, val |-> v]
    /\ calls' = [calls EXCEPT !.pushCalls = @ + 1]
    /\ pc' = IF NeedsGrow THEN "grow" ELSE "write"
    /\ lastRet' = NoRet
    /\ UNCHANGED << bufVars, platform, aux, heap, inDrop, live, model, counts,
                    hist, rec >>

\* Mutant: push writes one slot too far.
PushSlotOffByOne == len + 1

\* The slot `self.ptr.add(self.len)` push writes.
PushSlot == len

\* Mutant: push counts the element twice.
PushNewLenTwice == len + 2

\* `self.len += 1`
PushNewLen == len + 1

\* push, after grow: ptr::write of the element, then len += 1.
PushWrite ==
    /\ pc = "write"
    /\ heap' = PtrWrite(heap, ptr, PushSlot, pending)
    /\ rec' = RecAccess(PushSlot)
    /\ live' = live \cup {PushSlot}
    /\ len' = PushNewLen
    /\ counts' = Bump("written", pending.id)
    /\ model' = Append(model, pending)
    /\ hist' = HistPush(pending.val)
    /\ calls' = [calls EXCEPT !.pushDone = @ + 1]
    /\ pending' = Absent
    /\ lastRet' = [op |-> "push", val |-> Absent, n |-> 0,
                    touched |-> {PushSlot}]
    /\ pc' = "idle"
    /\ UNCHANGED << ptr, capacity, platform, aux, inDrop >>

(* ------------------------------ grow ---------------------------------- *)

\* The result of `self.capacity * 2` in a build that panics on overflow.
ArithPanic == -1

\* Mutant: growth halves the capacity.
GrowTargetHalved(cap) == IF cap = 0 THEN 1 ELSE cap \div 2

\* Mutant: growth by one slot instead of doubling.
GrowTargetLinear(cap) == cap + 1

\* `if self.capacity == 0 { 1 } else { self.capacity * 2 }`
GrowTarget(cap) == IF cap = 0 THEN 1 ELSE cap * 2

\* new_capacity as a usize: on overflow a debug build panics and a release
\* build wraps.
NewCapacities(cap) ==
    IF GrowTarget(cap) <= UsizeMax
    THEN {GrowTarget(cap)}
    ELSE {ArithPanic, GrowTarget(cap) % (UsizeMax + 1)}

\* Mutant: growth always takes a fresh block and copies nothing.
GrowRequestFresh(newLayout) == Alloc(heap, newLayout)

\* Mutant: growth resizes the block at ptr also when capacity is 0.
GrowRequestRealloc(newLayout) ==
    Realloc(heap, ptr, LayoutArray(capacity), newLayout.size)

\* Mutant: realloc is told the new layout as the layout of the old block.
GrowRequestNewLayout(newLayout) ==
    IF capacity = 0
    THEN Alloc(heap, newLayout)
    ELSE Realloc(heap, ptr, newLayout, newLayout.size)

\* `if self.capacity == 0 { alloc(..) } else { realloc(..) }`
GrowRequest(newLayout) ==
    IF capacity = 0
    THEN Alloc(heap, newLayout)
    ELSE Realloc(heap, ptr, LayoutArray(capacity), newLayout.size)

\* Mutant: the new layout computed from the capacity not yet updated.
GrowLayoutOld(nc) == LayoutArray(capacity)

\* `Layout::array::<T>(new_capacity)`
GrowLayout(nc) == LayoutArray(nc)

\* Mutant: grow without its null check.
IsNullNever(p) == FALSE

\* `new_ptr.is_null()`
IsNull(p) == p = Null

\* Mutant: grow keeps the pointer it had.
GrowStoresOld(o) == ptr

\* `self.ptr = new_ptr as *mut T`
GrowStores(o) == o.ptr

\* grow: either panics (overflow, Layout error, null from the allocator)
\* or stores the new block and the new capacity.
Grow ==
    /\ pc = "grow"
    /\ \E nc \in NewCapacities(capacity) :
          LET newLayout == IF nc = ArithPanic THEN LayoutErr
                           ELSE GrowLayout(nc)
              oldBad == capacity # 0 /\ LayoutArray(capacity) = LayoutErr
          IN  IF newLayout = LayoutErr \/ oldBad
              THEN /\ pc' = "panic"
                   /\ UNCHANGED << bufVars, heap, rec >>
              ELSE \E o \in GrowRequest(newLayout) :
                      /\ rec' = RecCall(o, newLayout)
                      /\ heap' = o.heap
                      /\ IF IsNull(o.ptr)
                         THEN /\ pc' = "panic"
                              /\ UNCHANGED bufVars
                         ELSE /\ ptr' = GrowStores(o)
                              /\ capacity' = nc
                              /\ len' = len
                              /\ pc' = "write"
    /\ UNCHANGED << platform, aux, inDrop, pending, lastRet, live, model, counts,
                    calls, hist >>

\* The panic unwinds out of push, dropping its argument, and then out of
\* the scope that owns the buffer, running Drop::drop.
Unwind ==
    /\ pc = "panic"
    /\ counts' = Bump("argDropped", pending.id)
    /\ pending' = Absent
    /\ inDrop' = TRUE
    /\ pc' = "drop_loop"
    /\ UNCHANGED << bufVars, platform, aux, heap, lastRet, live, model, calls,
                    hist, rec >>

(* ------------------------------ pop ----------------------------------- *)

\* Mutant: pop without its check for the empty buffer.
PopEmptyNever == FALSE

\* Mutant: pop reports the empty buffer one element early.
PopEmptyEarly == len <= 1

\* `if self.len == 0`
PopEmpty == len = 0

\* Mutant: pop forgets to lower len.
PopNoDecrement == len

\* `self.len -= 1`
PopNewLen == len - 1

\* Mutant: pop reads at the length it found (the read put before the
\* decrement).
PopSlotStale == len + 1

\* Mutant: pop lowers the index once more.
PopSlotBelow == len - 1

\* The slot `self.ptr.add(self.len)` pop reads, len being already lowered.
PopSlot == len

\* pop called by the user, up to the read.
PopCall ==
    /\ pc = "idle"
    /\ OpsDone < OpsBound
    /\ ~Unwinding
    /\ IF PopEmpty
       THEN /\ lastRet' = [op |-> "pop", val |-> Absent, n |-> 0,
                            touched |-> {}]
            /\ hist' = HistPop("none")
            /\ calls' = [calls EXCEPT !.popCalls = @ + 1, !.popEmpty = @ + 1]
            /\ UNCHANGED << len, pc >>
       ELSE /\ len' = PopNewLen
            /\ pc' = "read"
            /\ calls' = [calls EXCEPT !.popCalls = @ + 1]
            /\ lastRet' = NoRet
            /\ UNCHANGED hist
    /\ UNCHANGED << ptr, capacity, platform, aux, heap, inDrop, pending, live,
                    model, counts, rec >>

\* pop's ptr::read: the value leaves its slot, to the caller or, in Drop,
\* to be destructed at once.
PopRead ==
    /\ pc = "read"
    /\ LET e == PtrRead(heap, ptr, PopSlot)
       IN  IF inDrop
           THEN /\ counts' = Bump("torn", e.id)
                /\ pc' = "drop_loop"
                /\ UNCHANGED << model, lastRet, hist, calls >>
           ELSE /\ counts' = Bump("handed", e.id)
                /\ model' = Front(model)
                /\ lastRet' = [op |-> "pop", val |-> e, n |-> 0,
                                touched |-> {PopSlot}]
                /\ hist' = HistPop(e.val)
                /\ calls' = [calls EXCEPT !.popSome = @ + 1]
                /\ pc' = "idle"
    /\ live' = live \ {PopSlot}
    /\ rec' = RecAccess(PopSlot)
    /\ UNCHANGED << bufVars, platform, aux, heap, inDrop, pending >>

(* ---------------------------- get and len ----------------------------- *)

\* Indices handed to get: below len, between len and capacity, at and
\* beyond capacity, and the largest usize.
GetIndices == (0 .. capacity + 1) \cup {UsizeMax}

\* The slots get(index) dereferences.
GetTouches(index) == IF index < len THEN {index} ELSE {}

\* Mutant: get without its bound check.
GetUnchecked(index) == PtrRead(heap, ptr, index)

\* Mutant: get's bound check lets index == len through.
GetInclusive(index) ==
    IF index <= len THEN PtrRead(heap, ptr, index) ELSE Absent

\* get(index)
Get(index) ==
    IF index < len THEN PtrRead(heap, ptr, index) ELSE Absent

GetCall ==
    /\ pc = "idle"
    /\ ~Unwinding
    /\ \E i \in GetIndices :
          /\ lastRet' = [op |-> "get", val |-> Get(i), n |-> i,
                          touched |-> GetTouches(i)]
          /\ rec' = IF GetTouches(i) # {} THEN RecAccess(i) ELSE rec
    /\ UNCHANGED << bufVars, platform, aux, heap, pc, inDrop, pending, live,
                    model, counts, calls, hist >>

\* Mutant: len() returns the capacity.
LenRetCapacity == capacity

\* len(): `self.len`
LenRet == len

LenCall ==
    /\ pc = "idle"
    /\ ~Unwinding
    /\ lastRet' = [op |-> "len", val |-> Absent, n |-> LenRet,
                    touched |-> {}]
    /\ UNCHANGED << bufVars, platform, aux, heap, pc, inDrop, pending, live,
                    model, counts, calls, hist, rec >>

(* ------------------------------ Drop ---------------------------------- *)

\* The buffer goes out of scope: Drop::drop is entered.
DropCall ==
    /\ pc = "idle"
    /\ inDrop' = TRUE
    /\ pc' = "drop_loop"
    /\ lastRet' = NoRet
    /\ UNCHANGED << bufVars, platform, aux, heap, pending, live, model, counts,
                    calls, hist, rec >>

\* `while let Some(_) = self.pop() {}`: one call of pop.
DropLoop ==
    /\ pc = "drop_loop"
    /\ IF PopEmpty
       THEN /\ pc' = "drop_free"
            /\ len' = len
       ELSE /\ len' = PopNewLen
            /\ pc' = "read"
    /\ UNCHANGED << ptr, capacity, platform, aux, heap, inDrop, pending, lastRet,
                    live, model, counts, calls, hist, rec >>

\* Mutant: Drop releases without looking at capacity.
DropReleasesAlways == TRUE

\* `if self.capacity != 0`
DropReleases == capacity # 0

\* `if self.capacity != 0 { dealloc(self.ptr, Layout::array(self.capacity)) }`
DropFree ==
    /\ pc = "drop_free"
    /\ IF DropReleases
       THEN LET layout == LayoutArray(capacity)
                o == Dealloc(heap, ptr, layout)
            IN  /\ heap' = o.heap
                /\ rec' = RecRelease(ptr, layout, o)
       ELSE UNCHANGED << heap, rec >>
    /\ pc' = "done"
    /\ UNCHANGED << bufVars, platform, aux, inDrop, pending, lastRet, live, model,
                    counts, calls, hist >>

(* --------------------------- specification ---------------------------- *)

Next ==
    \/ PushCall
    \/ Grow
    \/ PushWrite
    \/ Unwind
    \/ PopCall
    \/ PopRead
    \/ GetCall
    \/ LenCall
    \/ DropCall
    \/ DropLoop
    \/ DropFree

Spec == Init /\ [][Next]_vars

\* The same buffer on a platform whose usize is NarrowBits wide, with the
\* element types of NarrowSizes: the overflow of `self.capacity * 2` and of
\* Layout::array are within MaxOps pushes.
InitNarrow ==
    /\ NewBuffer
    /\ elemSize \in NarrowSizes
    /\ usizeBits = NarrowBits
    /\ heap = [a \in Addrs |-> FreeBlock]
    /\ other = NoBuffer
    /\ split = NoSplit

SpecNarrow == InitNarrow /\ [][Next]_vars

\* Drop::drop is straight-line code around a loop, run to its end by the
\* thread that entered it: each of its steps is taken once it can be.
SpecLive ==
    /\ Spec
    /\ WF_vars(DropLoop)
    /\ WF_vars(PopRead)
    /\ WF_vars(DropFree)

(* ---------------------------- two buffers ----------------------------- *)

\* The buffer the caller is using, as it is set aside when the caller turns
\* to the other one.
Self ==
    [ptr |-> ptr, len |-> len, capacity |-> capacity, pc |-> pc,
     inDrop |-> inDrop, pending |-> pending, lastRet |-> lastRet,
     live |-> live, model |-> model, counts |-> counts, calls |-> calls,
     hist |-> hist, rec |-> rec]

\* Between two calls the caller turns to its other buffer. One thread runs
\* both, so that calls alternate and do not overlap.
Switch ==
    /\ other # NoBuffer
    /\ pc \in {"idle", "done"}
    /\ other' = Self
    /\ ptr' = other.ptr
    /\ len' = other.len
    /\ capacity' = other.capacity
    /\ pc' = other.pc
    /\ inDrop' = other.inDrop
    /\ pending' = other.pending
    /\ lastRet' = other.lastRet
    /\ live' = other.live
    /\ model' = other.model
    /\ counts' = other.counts
    /\ calls' = other.calls
    /\ hist' = other.hist
    /\ rec' = other.rec
    /\ UNCHANGED << platform, heap, split >>

\* Two buffers of the same element type, both as new() leaves them, and
\* one allocator.
InitPair ==
    /\ NewBuffer
    /\ elemSize \in ElemSizes
    /\ usizeBits = UsizeBits
    /\ heap = [a \in 1 .. PairAddrs |-> FreeBlock]
    /\ other = Self
    /\ split = NoSplit

NextPair ==
    \/ Next
    \/ Switch

SpecPair == InitPair /\ [][NextPair]_vars

(* ---------------------------- split_at_mut ---------------------------- *)

\* No slice has been made yet.
NoPart == [off |-> 0, n |-> -1]

\* slice::from_raw_parts_mut(ptr.add(off), n): the n elements from offset
\* off of the memory behind ptr.
RawParts(off, n) == [off |-> off, n |-> n]

\* `let len = slice.len();`
SplitLen == Len(split.slice)

\* Mutant: split_at_mut without its assertion.
SplitCheckNever == TRUE

\* `assert!(mid <= len)`
SplitCheck == split.mid <= SplitLen

\* Mutant: the right part begins one element late.
RightOffsetNext == split.mid + 1

\* `ptr.add(mid)`
RightOffset == split.mid

\* `len - mid`, in usize
RightLen == (SplitLen - split.mid) % (UsizeMax + 1)

\* The indices of the slice a part gives access to.
Indices(part) == part.off .. part.off + part.n - 1

\* What a part reads: the elements of the slice at its indices, and
\* whatever lies behind the slice beyond them.
View(part) ==
    [i \in 1 .. part.n |->
        IF part.off + i <= SplitLen THEN split.slice[part.off + i] ELSE 0]

\* split_at_mut(slice, mid) is called.
SplitArgs ==
    [pc : {"called"},
     slice : UNION {[1 .. n -> SplitValues] : n \in 0 .. MaxLen},
     mid : (0 .. MaxLen + 1) \cup {2 ^ UsizeBits - 1},
     left : {NoPart},
     right : {NoPart}]

\* `assert!(mid <= len);`
SplitAssert ==
    /\ split.pc = "called"
    /\ split' = [split EXCEPT !.pc = IF SplitCheck THEN "checked"
                                     ELSE "panic"]
    /\ UNCHANGED << bufVars, platform, heap, pc, inDrop, pending, lastRet,
                    live, model, counts, calls, hist, rec, other >>

\* The two calls of slice::from_raw_parts_mut, and the return.
SplitReturn ==
    /\ split.pc = "checked"
    /\ split' = [split EXCEPT !.pc = "returned",
                              !.left = RawParts(0, split.mid),
                              !.right = RawParts(RightOffset, RightLen)]
    /\ UNCHANGED << bufVars, platform, heap, pc, inDrop, pending, lastRet,
                    live, model, counts, calls, hist, rec, other >>

InitSplit ==
    /\ NewBuffer
    /\ elemSize = 4
    /\ usizeBits = UsizeBits
    /\ heap = [a \in Addrs |-> FreeBlock]
    /\ other = NoBuffer
    /\ split \in SplitArgs

NextSplit ==
    \/ SplitAssert
    \/ SplitReturn

SpecSplit == InitSplit /\ [][NextSplit]_vars

(* ------------------------------ claims -------------------------------- *)

ElemIdsPushed == 1 .. MaxOps

ReadOut(i) == counts.handed[i] + counts.torn[i]

ModelIds == {model[k].id : k \in 1 .. Len(model)}

\* C1: every value written into a slot by push leaves it exactly once, by a
\* pop of the user or by the teardown, never both and never twice; nothing
\* that was not written is read out; and when Drop has finished it has
\* destructed exactly the elements that were live when it began (the
\* reference stack) and none that a pop had handed out.
ExactlyOnceDestruct ==
    /\ \A i \in ElemIdsPushed :
          /\ ReadOut(i) <= 1
          /\ ReadOut(i) <= counts.written[i]
          /\ pc = "done" => ReadOut(i) = counts.written[i]
    /\ \A i \in ElemIds \ ElemIdsPushed : ReadOut(i) = 0
    /\ {i \in ElemIds : counts.torn[i] > 0} \subseteq ModelIds
    /\ pc = "done" => {i \in ElemIds : counts.torn[i] = 1} = ModelIds

\* A buffer dropped while partially popped: one element was handed out,
\* two were destructed by the teardown.
ExactlyOnceWitness ==
    /\ pc = "done"
    /\ Len(model) = 2
    /\ \E i \in ElemIdsPushed : counts.handed[i] = 1
    /\ \A k \in 1 .. Len(model) : counts.torn[model[k].id] = 1

\* C2: the allocator sees no release before the teardown and at most one in
\* all; when Drop has finished it has seen exactly one if an acquire ever
\* succeeded and none otherwise; the release names the block returned by
\* the last successful acquire/grow, which is the block the buffer owns, with
\* that call's byte size and alignment; no release hits a block that is not
\* allocated, and no block stays allocated.
OneReleasePerChain ==
    /\ rec.nRelease <= 1
    /\ rec.nRelease = 1 => pc = "done"
    /\ pc = "done" => rec.nRelease = (IF rec.nOk > 0 THEN 1 ELSE 0)
    /\ rec.nRelease = 1 =>
          /\ rec.relBlock = rec.okBlock
          /\ rec.relBlock = ptr
          /\ rec.relSize = rec.okSize
          /\ rec.relAlign = rec.okAlign
    /\ rec.bad \cap {"release_unowned", "release_bad_layout"} = {}
    /\ pc = "done" => \A a \in Addrs : ~heap[a].alloc

\* A buffer that grew three times (one acquire, two grows) and was released.
OneReleaseWitness ==
    /\ pc = "done"
    /\ rec.nRelease = 1
    /\ rec.nAcquire = 1
    /\ rec.nGrow >= 2
    /\ rec.nFail = 0
    /\ rec.relSize = 4 * elemSize

\* C3: while the run is n pushes followed by pops, the i-th pop returns the
\* (n+1-i)-th value pushed, and the (n+1)-th pop returns None.
LifoRoundTrip ==
    hist.phase \in {"push", "pop"} =>
        LET n == Len(hist.pushed)
        IN  \A i \in 1 .. Len(hist.popped) :
               hist.popped[i] = IF i <= n THEN hist.pushed[n + 1 - i]
                                ELSE "none"

\* Three pushes (two of them growing the block) and four pops.
LifoWitness ==
    /\ hist.phase = "pop"
    /\ hist.pushed = << "a", "b", "a" >>
    /\ hist.popped = << "a", "b", "a", "none" >>

\* C4: between calls, get(i) is the element the reference stack holds at
\* position i for every i < len, and None for every i >= len; and the value
\* the last get returned is the one the reference stack gives for its index.
IndexValidity ==
    /\ pc = "idle" =>
          \A i \in GetIndices :
             IF i < len
             THEN i < Len(model) /\ Get(i) = model[i + 1]
             ELSE Get(i) = Absent
    /\ lastRet.op = "get" =>
          lastRet.val = IF lastRet.n < Len(model) THEN model[lastRet.n + 1]
                        ELSE Absent

\* get(1) returned the second element from the bottom after pushes and pops.
IndexValidityWitness ==
    /\ lastRet.op = "get"
    /\ lastRet.n = 1
    /\ lastRet.val \in Elems
    /\ calls.popSome >= 1
    /\ len < calls.pushDone

\* C5: len <= capacity in every state, the states inside push, grow, pop and
\* Drop included.
LenWithinCapacity == len <= capacity

\* The state right after a growth from 2 to 4, before push writes.
LenWithinCapacityWitness ==
    /\ pc = "write"
    /\ len = 2
    /\ capacity = 4

\* C6: whenever no pop is between its decrement and its read, the live
\* slots are exactly 0 .. len-1, they lie in the block and hold a value that
\* was written, and every slot from len up to capacity is not live.
LiveIsPrefix ==
    pc # "read" =>
        /\ live = 0 .. len - 1
        /\ \A i \in 0 .. len - 1 :
              InBlock(heap, ptr, i) /\ PtrRead(heap, ptr, i) \in Elems
        /\ \A i \in len .. capacity - 1 : i \notin live

\* After a growth and a pop: slot len still holds the bits of the popped
\* value and slot len + 1 was added by the growth; neither is live.
LiveIsPrefixWitness ==
    /\ pc = "idle"
    /\ len = 2
    /\ capacity = 4
    /\ PtrRead(heap, ptr, 2) \in Elems
    /\ PtrRead(heap, ptr, 3) = Junk
    /\ live = {0, 1}

\* C7: every step that constructs (push's write) makes a slot live that was
\* not, and every step that destructs (pop's read, for the user or in Drop)
\* ends the life of a slot that was live.
SlotCycle ==
    [][/\ pc = "write" => live \subseteq live' /\ live' # live
       /\ pc = "read" => live' \subseteq live /\ live' # live]_vars

\* Slot 0 went through the cycle twice: written, popped, written again,
\* destructed by the teardown.
SlotCycleWitness ==
    /\ pc = "done"
    /\ Len(model) = 1
    /\ counts.handed[1] = 1
    /\ counts.torn[2] = 1
    /\ calls.popEmpty = 0

\* C8 as claimed: push constructs at an Uninitialized slot within
\* [0, capacity), and pop destructs at a Live slot within [0, len) for the
\* value len has when the read is made.
LifecyclePreconditionsAsClaimed ==
    /\ pc = "write" => PushSlot \in 0 .. capacity - 1 /\ PushSlot \notin live
    /\ pc = "read" => PopSlot \in 0 .. len - 1 /\ PopSlot \in live

\* C8, amended: push constructs at an Uninitialized slot within
\* [0, capacity); pop destructs at slot len for the value len has after its
\* decrement, which is the last of the live slots 0 .. len (so within
\* [0, length) for the length pop found) and lies within [0, capacity).
LifecyclePreconditions ==
    /\ pc = "write" => PushSlot \in 0 .. capacity - 1 /\ PushSlot \notin live
    /\ pc = "read" =>
          /\ PopSlot = len
          /\ PopSlot \in 0 .. capacity - 1
          /\ PopSlot \in live
          /\ live = 0 .. len

\* A pop of Drop about to read slot 1 of a buffer that held two elements.
LifecyclePreconditionsWitness ==
    /\ pc = "read"
    /\ inDrop
    /\ len = 1
    /\ live = {0, 1}

\* C9 as claimed: between calls, after k push calls and j <= k pop calls,
\* len is k - j.
LengthAccountingAsClaimed ==
    (pc = "idle" /\ calls.popCalls <= calls.pushCalls) =>
        len = calls.pushCalls - calls.popCalls

\* C9, amended: between calls, after k push calls and j pop calls none of
\* which met an empty buffer, len is k - j and so is what len() returns.
LengthAccounting ==
    (pc = "idle" /\ calls.popEmpty = 0) =>
        /\ len = calls.pushCalls - calls.popCalls
        /\ lastRet.op = "len" => lastRet.n = calls.pushCalls - calls.popCalls

\* len() returned 2 after four pushes and two pops.
LengthAccountingWitness ==
    /\ lastRet.op = "len"
    /\ lastRet.n = 2
    /\ calls.pushCalls = 4
    /\ calls.popCalls = 2
    /\ calls.popEmpty = 0

Pow2s == {2 ^ k : k \in 0 .. UsizeBits}

LeastPow2Geq(n) ==
    CHOOSE p \in Pow2s : p >= n /\ \A q \in Pow2s : q >= n => p <= q

\* C10: every growth that succeeds takes capacity from 0 to 1 or to twice
\* its value; capacity is always 0 or a power of two; and between calls,
\* after n >= 1 pushes and no pop, it is the least power of two >= n.
GrowthSequence ==
    /\ [](/\ capacity = 0 \/ capacity \in Pow2s
          /\ (pc = "idle" /\ calls.popCalls = 0 /\ calls.pushDone >= 1) =>
                 capacity = LeastPow2Geq(calls.pushDone))
    /\ [][(pc = "grow" /\ pc' = "write") =>
             capacity' = IF capacity = 0 THEN 1 ELSE 2 * capacity]_vars

\* Five pushes and no pop: capacity 8.
GrowthSequenceWitness ==
    /\ pc = "idle"
    /\ calls.pushDone = 5
    /\ calls.popCalls = 0
    /\ capacity = 8

\* The number of calls made to the allocator so far.
AllocCalls == rec.nAcquire + rec.nGrow + rec.nRelease

\* C11: a growth that succeeds leaves len unchanged and leaves get(i)
\* unchanged for every i < len, whether the block stays or moves.
GrowthPreserves ==
    [][(pc = "grow" /\ pc' = "write") =>
          /\ len' = len
          /\ \A i \in 0 .. len - 1 :
                /\ Get(i)' = Get(i)
                /\ Get(i) = model[i + 1]]_vars

\* A growth from capacity 2 to 4 that moved the block holding two elements.
GrowthPreservesWitness ==
    /\ pc = "write"
    /\ rec.moved
    /\ len = 2
    /\ capacity = 4
    /\ Get(0) = model[1]
    /\ Get(1) = model[2]
    /\ model[1].val # model[2].val

\* C12: grow runs only with len = capacity; the steps of a push other than
\* grow make no allocator call and leave capacity and ptr alone; a growth
\* that succeeds leaves capacity strictly larger.
GrowOnlyWhenFull ==
    /\ [](pc = "grow" => len = capacity)
    /\ [][/\ (pc = "idle" /\ pc' = "write") => len < capacity
          /\ (pc = "idle" /\ pc' = "grow") => len = capacity
          /\ ((pc = "idle" /\ pc' \in {"grow", "write"}) \/ pc = "write") =>
                 /\ UNCHANGED << ptr, capacity >>
                 /\ AllocCalls' = AllocCalls
          /\ (pc = "grow" /\ pc' = "write") => capacity' > capacity]_vars

\* push, push, pop, push: the third push found len 1 under capacity 2 and
\* the allocator has seen the two calls of the first two pushes only.
GrowOnlyWhenFullWitness ==
    /\ pc = "idle"
    /\ lastRet.op = "push"
    /\ calls.pushDone = 3
    /\ calls.popSome = 1
    /\ len = 2
    /\ capacity = 2
    /\ AllocCalls = 2

\* C13: while the buffer exists with capacity > 0, the allocator holds for
\* ptr a block of elemSize * capacity bytes aligned to ElemAlign.
BlockFitsCapacity ==
    (capacity > 0 /\ pc # "done") =>
        /\ Owned(heap, ptr)
        /\ heap[ptr].size = elemSize * capacity
        /\ heap[ptr].align = ElemAlign
        /\ rec.okSize = elemSize * capacity
        /\ rec.okAlign = ElemAlign

\* Four-byte elements under capacity 4: a block of 16 bytes.
BlockFitsCapacityWitness ==
    /\ pc = "idle"
    /\ elemSize = 4
    /\ capacity = 4
    /\ heap[ptr].size = 16
    /\ heap[ptr].align = 4

\* C14: the buffer owns a block exactly when capacity > 0; a buffer never
\* pushed to has len 0, capacity 0 and has made no allocator call; with
\* capacity 0 ptr is the dangling pointer of new() and no grow and no
\* release was ever issued, teardown included.
OwnsBlockIffCapacity ==
    /\ pc # "done" => (capacity > 0 <=> Owned(heap, ptr))
    /\ calls.pushCalls = 0 => (len = 0 /\ capacity = 0 /\ AllocCalls = 0)
    /\ capacity = 0 =>
          /\ ptr = Dangling
          /\ rec.nGrow = 0
          /\ rec.nRelease = 0
          /\ rec.nOk = 0
          /\ \A a \in Addrs : ~heap[a].alloc

\* A buffer torn down after pops and reads but no push.
OwnsBlockIffCapacityWitness ==
    /\ pc = "done"
    /\ calls.pushCalls = 0
    /\ calls.popEmpty >= 1
    /\ capacity = 0
    /\ AllocCalls = 0

\* C15: a push whose alloc or realloc returns null leaves ptr, capacity,
\* len, the heap and every slot as they were when the push was entered, has
\* written no element, and the block owned before is still owned, with its
\* size, and not released.
FailedGrowthLeavesBuffer ==
    /\ [](pc = "panic" => counts.written[calls.pushCalls] = 0)
    /\ [][/\ (pc = "idle" /\ pc' = "grow") =>
                 UNCHANGED << bufVars, heap, live, model, counts, rec >>
          /\ rec'.nFail # rec.nFail =>
                 /\ pc = "grow"
                 /\ pc' = "panic"
                 /\ UNCHANGED << bufVars, heap, live, model, counts >>
                 /\ rec'.nRelease = rec.nRelease
                 /\ rec'.nOk = rec.nOk
                 /\ capacity > 0 =>
                       /\ Owned(heap', ptr')
                       /\ heap'[ptr'].size = elemSize * capacity
                       /\ \A i \in 0 .. len - 1 :
                             PtrRead(heap', ptr', i) = model[i + 1]]_vars

\* realloc from capacity 2 to 4 returned null: the block of two elements is
\* as it was.
FailedGrowthLeavesBufferWitness ==
    /\ pc = "panic"
    /\ rec.nFail = 1
    /\ rec.nGrow = 2
    /\ rec.nRelease = 0
    /\ len = 2
    /\ capacity = 2
    /\ Owned(heap, ptr)
    /\ Get(1) = model[2]

\* C16 as claimed: after alloc or realloc returned null no step touches the
\* buffer any more: no slot is read or destructed, len does not move and
\* the allocator is not called.
NoStepAfterFailureAsClaimed ==
    [][rec.nFail > 0 =>
          /\ UNCHANGED << bufVars, heap, live, rec >>
          /\ counts'.torn = counts.torn]_vars

\* C16: after alloc or realloc returned null the push does not return: its
\* panic unwinds, the value being pushed is dropped unwritten, and the only
\* steps on the buffer are those of Drop::drop. No push completes, no get,
\* len or pop of the caller runs, and no further alloc or realloc is made.
FailureOnlyUnwinds ==
    /\ [](rec.nFail > 0 =>
            /\ pc \in {"panic", "drop_loop", "read", "drop_free", "done"}
            /\ inDrop = (pc # "panic")
            /\ rec.nFail = 1
            /\ rec.nAcquire + rec.nGrow = rec.nOk + 1
            /\ lastRet = NoRet
            /\ calls.pushDone = calls.pushCalls - 1
            /\ counts.written[calls.pushCalls] = 0
            /\ pc # "panic" => counts.argDropped[calls.pushCalls] = 1)
    /\ [][rec.nFail > 0 =>
             /\ UNCHANGED << ptr, capacity, calls, lastRet, model, hist >>
             /\ len' <= len
             /\ rec'.nAcquire = rec.nAcquire
             /\ rec'.nGrow = rec.nGrow
             /\ rec'.nFail = rec.nFail
             /\ counts'.written = counts.written
             /\ counts'.handed = counts.handed]_vars

\* realloc failed with two live elements; Drop::drop then destructed both
\* and released the block.
FailureOnlyUnwindsWitness ==
    /\ pc = "done"
    /\ rec.nFail = 1
    /\ rec.nGrow = 2
    /\ rec.nRelease = 1
    /\ len = 0
    /\ counts.torn[1] = 1
    /\ counts.torn[2] = 1
    /\ counts.argDropped[3] = 1

\* Whether growth from capacity cap overflows usize, in `self.capacity * 2`
\* or in the byte size of the new block.
GrowthOverflows(cap) ==
    \/ GrowTarget(cap) > UsizeMax
    \/ elemSize * GrowTarget(cap) > UsizeMax

\* C17: growth never wraps: when capacity * 2 or elemSize * new_capacity
\* exceeds UsizeMax the push ends in a panic with the buffer and the heap
\* untouched; the capacity stored is the unreduced new capacity and the
\* byte size the allocator grants is elemSize times that capacity.
NoSilentWrap ==
    [][pc = "grow" =>
          /\ GrowthOverflows(capacity) =>
                 /\ pc' = "panic"
                 /\ UNCHANGED << bufVars, heap, rec >>
          /\ capacity' # capacity => capacity' = GrowTarget(capacity)
          /\ rec'.nOk # rec.nOk =>
                 rec'.okSize = elemSize * GrowTarget(capacity)]_vars

\* C18: pop with len = 0 returns absent, leaves len at 0 and reads and
\* destructs no slot; get(i) with i >= len returns absent and reads no
\* slot, whatever slot i holds; neither fails nor changes anything else.
EmptyAccessIsAbsent ==
    /\ []((lastRet.op = "get" /\ lastRet.n >= len) =>
             /\ lastRet.val = Absent
             /\ lastRet.touched = {}
             /\ pc = "idle")
    /\ []((lastRet.op = "pop" /\ lastRet.val = Absent) =>
             /\ len = 0
             /\ lastRet.touched = {}
             /\ pc = "idle")
    /\ [][/\ (pc = "idle" /\ len = 0 /\ calls'.popCalls # calls.popCalls) =>
                 /\ lastRet'.op = "pop"
                 /\ lastRet'.val = Absent
                 /\ calls'.popEmpty = calls.popEmpty + 1
                 /\ UNCHANGED << bufVars, heap, pc, live, model, counts, rec >>
          /\ (lastRet' # lastRet /\ lastRet'.op = "get"
                 /\ lastRet'.n >= len) =>
                 /\ lastRet'.val = Absent
                 /\ UNCHANGED << bufVars, heap, pc, live, model, counts, rec,
                                 calls >>]_vars

\* get(1) after push, push, pop: slot 1 is within capacity and still holds
\* the bits of the popped element, and get returned absent.
EmptyAccessIsAbsentWitness ==
    /\ lastRet.op = "get"
    /\ lastRet.n = 1
    /\ lastRet.val = Absent
    /\ len = 1
    /\ capacity = 2
    /\ calls.popSome = 1
    /\ calls.popEmpty = 0
    /\ PtrRead(heap, ptr, 1) \in Elems

\* pop on the empty buffer that three pushes and three pops left behind.
EmptyPopWitness ==
    /\ lastRet.op = "pop"
    /\ lastRet.val = Absent
    /\ calls.popSome = 3
    /\ calls.popEmpty = 1
    /\ capacity = 4

\* A step of pop: its entry, called by the user or by Drop::drop, or its
\* ptr::read.
PopStep ==
    \/ calls'.popCalls # calls.popCalls
    \/ pc = "drop_loop"
    \/ pc = "read"

\* C19: every step of pop, on an empty buffer or not, leaves capacity, ptr
\* and the heap alone, calls no allocator function and leaves get(i) as it
\* was for every i below the new len; no step at all lowers capacity.
PopKeepsBlock ==
    [][/\ capacity' >= capacity
       /\ PopStep =>
             /\ UNCHANGED << ptr, capacity, heap >>
             /\ AllocCalls' = AllocCalls
             /\ rec'.nFail = rec.nFail
             /\ len' <= len
             /\ \A i \in 0 .. len' - 1 :
                   /\ Get(i)' = Get(i)
                   /\ Get(i)' \in Elems]_vars

\* Two pops after three pushes: capacity is still 4, the allocator has seen
\* the three growths only and element 0 is in place.
PopKeepsBlockWitness ==
    /\ pc = "idle"
    /\ lastRet.op = "pop"
    /\ calls.pushDone = 3
    /\ calls.popSome = 2
    /\ lastRet.val \in Elems
    /\ len = 1
    /\ capacity = 4
    /\ AllocCalls = 3
    /\ rec.nRelease = 0
    /\ Get(0) = model[1]

\* C20: get(index), for every index, and len() change nothing of the
\* buffer, of its slots or of the heap, call no allocator function and
\* return to the caller; len() returns len and get the element at index
\* or absent.
QueriesArePure ==
    /\ [](lastRet.op = "len" => (lastRet.n = len /\ pc = "idle"))
    /\ [](lastRet.op = "get" => pc = "idle")
    /\ [][(lastRet' # lastRet /\ lastRet'.op \in {"get", "len"}) =>
             /\ UNCHANGED << bufVars, heap, pc, inDrop, live, model, counts,
                             calls, rec >>
             /\ lastRet'.op = "len" => lastRet'.n = len
             /\ lastRet'.op = "get" =>
                   lastRet'.val = IF lastRet'.n < len
                                  THEN model[lastRet'.n + 1]
                                  ELSE Absent]_vars

\* get of the largest usize on a full buffer of two elements.
QueriesArePureWitness ==
    /\ lastRet.op = "get"
    /\ lastRet.n = UsizeMax
    /\ lastRet.n > capacity
    /\ lastRet.val = Absent
    /\ len = 2
    /\ capacity = 2
    /\ Get(1) = model[2]

\* The elements Drop::drop has destructed so far.
TornIds == {i \in ElemIds : counts.torn[i] > 0}

\* The number of elements Drop::drop has not yet read out: len, and the
\* one whose pop has lowered len and has not yet read it.
Undestructed == IF pc = "read" THEN len + 1 ELSE len

\* C21: at every point of the teardown the elements destructed so far are
\* the topmost ones of the stack and the slots still live are those below
\* them, so that destruction goes from index len - 1 down to 0; the release
\* comes when no slot is live any more, and nothing follows it.
TeardownOrder ==
    /\ inDrop =>
          /\ TornIds = {model[j].id : j \in Undestructed + 1 .. Len(model)}
          /\ live = 0 .. Undestructed - 1
          /\ pc = "drop_free" => Undestructed = 0
    /\ ~inDrop => (TornIds = {} /\ rec.nRelease = 0)
    /\ rec.nRelease > 0 =>
          /\ pc = "done"
          /\ live = {}
          /\ TornIds = ModelIds
    /\ pc = "done" => ~ENABLED Next

\* In the middle of the teardown of three elements: the third is
\* destructed, the second is being read, the first is still live.
TeardownOrderWitness ==
    /\ inDrop
    /\ pc = "read"
    /\ Len(model) = 3
    /\ len = 1
    /\ live = {0, 1}
    /\ TornIds = {model[3].id}
    /\ rec.nRelease = 0

\* ceil(log2 n) for n >= 1.
CeilLog2(n) ==
    CHOOSE k \in 0 .. MaxOps : 2 ^ k >= n /\ \A j \in 0 .. k - 1 : 2 ^ j < n

\* The calls of alloc and realloc made so far.
GrowthCalls == rec.nAcquire + rec.nGrow

\* C22: after N >= 1 push calls, with pops and gets anywhere in between,
\* alloc and realloc were called at most 1 + ceil(log2 N) times in all, and
\* at most once per push; the number of those calls that succeeded is a
\* function of capacity alone, so that pop, get and len add none.
AmortizedGrowth ==
    /\ calls.pushCalls >= 1 =>
          GrowthCalls <= 1 + CeilLog2(calls.pushCalls)
    /\ GrowthCalls <= calls.pushCalls
    /\ rec.nOk = IF capacity = 0 THEN 0 ELSE 1 + CeilLog2(capacity)
    /\ GrowthCalls = rec.nOk + rec.nFail

\* Five pushes with a pop in between: the bound 1 + ceil(log2 5) = 4 is
\* met.
AmortizedGrowthWitness ==
    /\ pc = "idle"
    /\ calls.pushDone = 5
    /\ calls.popSome >= 1
    /\ lastRet.op = "get"
    /\ GrowthCalls = 4

\* The buffer in use holds a block: it has grown and is not yet dropped.
SelfOwns == capacity > 0 /\ pc # "done"

\* The buffer set aside holds a block.
OtherOwns == other.capacity > 0 /\ other.pc # "done"

\* C23: with two buffers on one allocator, used in any order: no block
\* belongs to both; whatever the buffer in use does (growth that moves its
\* block, pop, teardown), the buffer set aside still has its block, of
\* the size of its capacity, holding its elements in order; and the
\* allocator holds one block per owning buffer and no other.
PairIsolation ==
    /\ (SelfOwns /\ OtherOwns) => ptr # other.ptr
    /\ OtherOwns =>
          /\ Owned(heap, other.ptr)
          /\ heap[other.ptr].size = elemSize * other.capacity
          /\ \A i \in 0 .. other.len - 1 :
                PtrRead(heap, other.ptr, i) = other.model[i + 1]
    /\ SelfOwns =>
          /\ Owned(heap, ptr)
          /\ heap[ptr].size = elemSize * capacity
          /\ pc = "idle" => \A i \in 0 .. len - 1 : Get(i) = model[i + 1]
    /\ Cardinality({a \in DOMAIN heap : heap[a].alloc})
          = (IF SelfOwns THEN 1 ELSE 0) + (IF OtherOwns THEN 1 ELSE 0)
    /\ rec.bad = {}
    /\ other.rec.bad = {}

\* The block of the buffer in use has just moved in a growth, while the
\* buffer set aside holds its one element.
PairIsolationWitness ==
    /\ pc = "write"
    /\ rec.moved
    /\ capacity = 2
    /\ len = 1
    /\ other.capacity = 1
    /\ other.len = 1
    /\ PtrRead(heap, other.ptr, 0) = other.model[1]

\* The buffer in use was dropped and released its block, and the buffer set
\* aside still holds its element.
PairTeardownWitness ==
    /\ pc = "done"
    /\ rec.nRelease = 1
    /\ other.len = 1
    /\ other.pc = "idle"
    /\ PtrRead(heap, other.ptr, 0) = other.model[1]

\* C24: when split_at_mut has returned, mid <= len, the left part reads
\* the elements at [0, mid) and the right part those at [mid, len), in
\* order, the two share no index and cover the slice; with mid > len the
\* call panics in its assertion and no part is ever made.
SplitPartition ==
    /\ split.pc = "returned" =>
          /\ split.mid <= SplitLen
          /\ View(split.left) = SubSeq(split.slice, 1, split.mid)
          /\ View(split.right) = SubSeq(split.slice, split.mid + 1, SplitLen)
          /\ Indices(split.left) \cap Indices(split.right) = {}
          /\ Indices(split.left) \cup Indices(split.right)
                = 0 .. SplitLen - 1
    /\ split.mid > SplitLen =>
          /\ split.pc \in {"called", "panic"}
          /\ split.left = NoPart
          /\ split.right = NoPart
    /\ split.pc = "panic" => split.mid > SplitLen

\* A slice of four split in the middle.
SplitPartitionWitness ==
    /\ split.pc = "returned"
    /\ split.slice = << 1, 2, 3, 1 >>
    /\ split.mid = 2
    /\ View(split.left) = << 1, 2 >>
    /\ View(split.right) = << 3, 1 >>

\* mid one past the end: the assertion failed.
SplitPanicWitness ==
    /\ split.pc = "panic"
    /\ Len(split.slice) = 3
    /\ split.mid = 4

\* C25: growth calls alloc exactly when capacity is 0 and realloc
\* otherwise; every realloc names the block the buffer owns with the
\* layout that block has, elemSize * capacity bytes aligned to ElemAlign,
\* and every request asks for elemSize * new capacity bytes, which is more,
\* with the same alignment.
GrowthRequests ==
    /\ [](rec.bad \cap {"realloc_unowned", "realloc_bad_layout"} = {})
    /\ [][GrowthCalls' # GrowthCalls =>
             /\ pc = "grow"
             /\ GrowthCalls' = GrowthCalls + 1
             /\ (rec'.nAcquire # rec.nAcquire) <=> (capacity = 0)
             /\ (rec'.nGrow # rec.nGrow) <=> (capacity > 0)
             /\ rec'.reqSize = elemSize * GrowTarget(capacity)
             /\ rec'.reqSize > elemSize * capacity
             /\ rec'.reqAlign = ElemAlign
             /\ capacity > 0 =>
                   /\ Owned(heap, ptr)
                   /\ rec.okBlock = ptr
                   /\ heap[ptr].size = elemSize * capacity
                   /\ heap[ptr].align = rec'.reqAlign
                   /\ rec.okSize = elemSize * capacity
                   /\ rec.okAlign = rec'.reqAlign]_vars

\* The third growth of a buffer of four-byte elements: realloc from 8 to
\* 16 bytes.
GrowthRequestsWitness ==
    /\ pc = "write"
    /\ elemSize = 4
    /\ rec.nAcquire = 1
    /\ rec.nGrow = 2
    /\ rec.reqSize = 16
    /\ rec.reqAlign = 4
    /\ capacity = 4

\* C26: once a growth has succeeded ptr is the block the allocator returned
\* last, and until the release that block is allocated and the only one;
\* no write of push, no read of pop or get, no realloc and no dealloc ever
\* went to memory that is not an allocated block of the buffer.
BaseIsCurrentBlock ==
    /\ rec.nOk > 0 => ptr = rec.okBlock
    /\ (rec.nOk > 0 /\ pc # "done") =>
          {a \in DOMAIN heap : heap[a].alloc} = {ptr}
    /\ rec.nOk = 0 => ptr = Dangling
    /\ rec.bad \cap {"wild_access", "realloc_unowned", "release_unowned"} = {}
    /\ lastRet.touched \subseteq 0 .. capacity - 1

\* A growth has just moved the block: ptr is the new address, the old one
\* is free, and the two elements are read at the new one.
BaseIsCurrentBlockWitness ==
    /\ pc = "write"
    /\ rec.moved
    /\ rec.nGrow = 2
    /\ ptr = rec.okBlock
    /\ FreeAddrs(heap) # {}
    /\ Get(0) = model[1]
    /\ Get(1) = model[2]

\* A push has panicked in grow and the unwinding has entered Drop::drop.
FailedPushUnwound == inDrop /\ calls.pushDone < calls.pushCalls

\* C27: when a push has failed in grow and the teardown has run, it has
\* destructed exactly the elements that were live before that push, each
\* once; it has released the block held before the push once, with the
\* byte size of the capacity before the push, and nothing if that capacity
\* was 0; the value being pushed was never written to a slot, never read
\* out of one, and was dropped once.
FailedPushTeardown ==
    FailedPushUnwound =>
        /\ counts.written[calls.pushCalls] = 0
        /\ ReadOut(calls.pushCalls) = 0
        /\ counts.argDropped[calls.pushCalls] = 1
        /\ calls.pushCalls \notin ModelIds
        /\ Len(model) = calls.pushDone - calls.popSome
        /\ pc = "done" =>
              /\ TornIds = ModelIds
              /\ \A i \in ElemIds : counts.torn[i] <= 1
              /\ rec.nRelease = IF capacity > 0 THEN 1 ELSE 0
              /\ capacity > 0 =>
                    /\ rec.relBlock = ptr
                    /\ rec.relSize = elemSize * capacity
                    /\ rec.relAlign = ElemAlign
              /\ \A a \in DOMAIN heap : ~heap[a].alloc
              /\ rec.bad = {}

\* realloc failed in the third push of four-byte elements: both elements
\* destructed, the block of 8 bytes released, the third value dropped.
FailedPushTeardownWitness ==
    /\ pc = "done"
    /\ FailedPushUnwound
    /\ rec.nFail = 1
    /\ elemSize = 4
    /\ capacity = 2
    /\ Len(model) = 2
    /\ rec.relSize = 8
    /\ counts.argDropped[3] = 1

\* alloc failed in the first push: nothing to destruct, nothing released.
FailedFirstPushWitness ==
    /\ pc = "done"
    /\ FailedPushUnwound
    /\ rec.nFail = 1
    /\ capacity = 0
    /\ rec.nRelease = 0
    /\ counts.argDropped[1] = 1

\* C28: for every element size, zero included, no alloc and no realloc is
\* asked for 0 bytes, and the block held under capacity > 0 has a size
\* other than 0.
NoZeroSizeRequest ==
    /\ "zero_size_alloc" \notin rec.bad
    /\ GrowthCalls > 0 => rec.reqSize > 0
    /\ (capacity > 0 /\ pc # "done") =>
          /\ Owned(heap, ptr)
          /\ heap[ptr].size > 0

\* C29: between calls len, and what len() returns, is the number of pushes
\* that completed minus the number of pops that returned a value, pops on
\* the empty buffer included in neither; a push that completes raises len
\* by 1, a pop that finds an element lowers it by 1, and a pop that
\* returns None, a get and a len leave it as it is.
LenIsPushesMinusPops ==
    /\ [](pc = "idle" => len = calls.pushDone - calls.popSome)
    /\ [](lastRet.op = "len" => lastRet.n = calls.pushDone - calls.popSome)
    /\ [][/\ calls'.pushDone # calls.pushDone =>
                 (len' = len + 1 /\ calls'.pushDone = calls.pushDone + 1)
          /\ (pc = "idle" /\ pc' = "read") => len' = len - 1
          /\ calls'.popSome # calls.popSome =>
                 (len' = len /\ calls'.popSome = calls.popSome + 1)
          /\ calls'.popEmpty # calls.popEmpty => len' = len
          /\ (lastRet' # lastRet /\ lastRet'.op \in {"get", "len"}) =>
                 len' = len]_vars

\* pop on the new buffer, two pushes, a pop, then len() = 1: the pop that
\* returned None does not count.
LenIsPushesMinusPopsWitness ==
    /\ lastRet.op = "len"
    /\ lastRet.n = 1
    /\ calls.pushDone = 2
    /\ calls.popSome = 1
    /\ calls.popEmpty = 1

\* C30: a teardown, entered with len = n in whatever state the buffer is,
\* comes to its end; the pops that yielded a value so far and the elements
\* still to pop add up to n at every point; the loop ends with the one pop
\* that finds len = 0; then comes the release, at most one, and the end,
\* with len = 0.
TeardownTerminates ==
    /\ inDrop ~> (pc = "done")
    /\ [](inDrop => Cardinality(TornIds) + Undestructed = Len(model))
    /\ [](pc \in {"drop_free", "done"} =>
            /\ len = 0
            /\ Cardinality(TornIds) = Len(model))
    /\ [](rec.nRelease <= 1)
    /\ [][/\ (~inDrop /\ inDrop') => (len = Len(model) /\ pc' = "drop_loop")
          /\ pc = "drop_loop" =>
                 IF len = 0
                 THEN pc' = "drop_free" /\ len' = 0
                 ELSE pc' = "read" /\ len' = len - 1
          /\ (inDrop /\ pc = "read") => pc' = "drop_loop"
          /\ pc = "drop_free" =>
                 /\ pc' = "done"
                 /\ rec'.nRelease = IF capacity > 0 THEN 1 ELSE 0]_vars

\* The teardown of a buffer of capacity 4 holding one element has ended.
TeardownTerminatesWitness ==
    /\ pc = "done"
    /\ capacity = 4
    /\ Len(model) = 1
    /\ Cardinality(TornIds) = 1
    /\ len = 0
    /\ rec.nRelease = 1
    /\ rec.nFail = 0

====
